---- MODULE Spec2Model ----
(***************************************************************************)
(* FieldVision media pipeline: the frame sampler (modules/video_frame_     *)
(* slicer.py), the blur/duplicate filter (modules/frame_filter.py), the    *)
(* tagger (modules/image_tagger.py) and the folder daemon                  *)
(* (fieldvision_daemon.py), each modelled from its source.                 *)
(*                                                                         *)
(* The variables come in groups, one per part of the program.  Every       *)
(* specification constrains all of them: the groups it does not exercise   *)
(* stay at their initial values.                                           *)
(***************************************************************************)
EXTENDS Integers, Sequences, FiniteSets, TLC

VARIABLES
    \* ---- the file system and the process environment ----
    disk,          \* the files on disk: path -> content (a partial function)
    environ,       \* the process environment config.py reads at import
    \* ---- frame_filter.filter_frames (FilterSpec) ----
    frame_paths,   \* the argument of filter_frames
    kept,          \* filter_frames(frame_paths)
    refiltered,    \* filter_frames(kept)
    fpc,           \* "off" | "init" | "once" | "twice"
    \* ---- image_tagger.tag_image (TagSpec) ----
    img_path,      \* the argument of tag_image, a string of characters
    tags,          \* the dict tag_image returned
    tpc,           \* "off" | "init" | "done"
    \* ---- video_frame_slicer.slice_video (SliceSpec, FolderSpec) ----
    cv2_ok,        \* whether `import cv2` succeeds in this process
    dir_ok,        \* whether out_dir can be created and written to
    videos,        \* video path -> [openable, nframes, native_fps]
    call,          \* the arguments of the running call of slice_video
    spc,           \* where the call is: "idle", a line of slice_video, "returned", "raised"
    cap,           \* the cv2.VideoCapture: "none" | "unopened" | "open" | "released"
    loop_i,        \* the loop variable i of line 47
    frame,         \* the frame cap.read() returned: its index in the container
    frame_index,   \* the local of that name
    sliced,        \* the local frame_paths of slice_video
    sim_paths,     \* the local paths of _sim_generate_frames
    route,         \* which return of slice_video is taken: "sim" | "import" | "open" | "zero" | "live"
    result,        \* the list slice_video returned
    exc,           \* the exception slice_video raised, "none" if none
    kept_idx,      \* history: the container index of every frame appended to sliced
    \* ---- fieldvision_daemon.handle_folder (FolderSpec) ----
    hpc,           \* where handle_folder is
    vidx,          \* the position of the loop of line 50 in folder.glob('*.mp4')
    frames,        \* the local of that name
    written,       \* history: written[k] is the content of frames[k] when slice_video returned it
    stills,        \* folder.glob('*.jpg')
    filtered,      \* the local of that name
    \* ---- fieldvision_daemon: MediaHandler and process_media (DaemonSpec) ----
    queue,         \* handler.queue: the items of the asyncio.Queue
    getter,        \* the future queue.get() waits on: "none" | "waiting" | "done"
    ready,         \* whether the wake-up of the consumer sits in the loop's ready list
    cpc,           \* where process_media is
    ppc,           \* where the observer thread is in on_created
    path,          \* the local of process_media
    processed_dates, \* the local of process_media
    nevents,       \* history: the events the observer delivered
    puts,          \* history: every path put on the queue, in order
    handled,       \* history: the folders handle_folder was called with, in order
    errors         \* history: the folders logged as failed, in order

filterVars == <<frame_paths, kept, refiltered, fpc>>

tagVars == <<img_path, tags, tpc>>

sliceEnv == <<cv2_ok, dir_ok, videos>>

sliceLocals == <<cap, loop_i, frame, frame_index, sliced, sim_paths, route, result, exc, kept_idx>>

sliceVars == <<sliceEnv, call, spc, sliceLocals>>

folderVars == <<hpc, vidx, frames, written, stills, filtered>>

daemonVars ==
    <<queue, getter, ready, cpc, ppc, path, processed_dates, nevents, puts, handled, errors>>

vars == <<disk, environ, filterVars, tagVars, sliceVars, folderVars, daemonVars>>

(***************************************************************************)
(* Bounds of the model.                                                    *)
(***************************************************************************)
NumFiles == 3      \* files the filter's input may name
MaxLen == 3        \* longest input list given to filter_frames
MaxPathLen == 3    \* longest image path given to tag_image
MaxFps == 2        \* largest fps given to slice_video
MaxSeconds == 3    \* largest max_seconds given to slice_video
MaxNativeFps == 3  \* largest native frame rate of a video
MaxVideoFrames == 4 \* most frames a video holds
MaxVideos == 2     \* most *.mp4 files in a folder
MaxFolderFrames == 2 \* most frames a video of a folder holds
MaxEvents == 3     \* most file-system events the observer delivers

(***************************************************************************)
(* Generic helpers.                                                        *)
(***************************************************************************)
None == [kind |-> "none"]

SeqsUpTo(S, n) == UNION { [1..k -> S] : k \in 0..n }

Range(s) == { s[i] : i \in 1..Len(s) }

\* The elements of s at the indexes in S, in index order.
AtIndexes(s, S) ==
    LET F[i \in 0..Len(s)] ==
            IF i = 0 THEN <<>>
            ELSE IF i \in S THEN Append(F[i-1], s[i]) ELSE F[i-1]
    IN  F[Len(s)]

\* t is a subsequence of s: some strictly increasing choice of indexes of s.
IsSubsequence(t, s) == \E S \in SUBSET (1..Len(s)) : t = AtIndexes(s, S)

NoDuplicates(s) == \A i, j \in 1..Len(s) : i # j => s[i] # s[j]

(***************************************************************************)
(* File contents.  A file is either text (the sampler's placeholder, which *)
(* no image decoder reads) or an encoded image; the bytes are named by id, *)
(* and variance is the variance of the Laplacian of the decoded image;     *)
(* marker says that the text holds "[SIM FRAME PLACEHOLDER]".              *)
(***************************************************************************)
TextBytes(id) == [kind |-> "text", marker |-> TRUE, id |-> id, variance |-> 0]

ImageBytes(id, v) == [kind |-> "image", marker |-> FALSE, id |-> id, variance |-> v]

Soft == ImageBytes(<<2>>, 99)       \* just below the blur threshold
Edge == ImageBytes(<<3>>, 100)      \* exactly at the threshold
SharpA == ImageBytes(<<4>>, 250)
SharpB == ImageBytes(<<5>>, 250)    \* other bytes than SharpA, same MD5 digest

FilterContents == { TextBytes(<<1>>), Soft, Edge, SharpA, SharpB }

\* f"{n:03d}": the decimal digits of n, zero-padded to three.
Digits(n) ==
    LET D[k \in 0..n] == IF k < 10 THEN <<k>> ELSE Append(D[k \div 10], k % 10)
    IN  D[n]

Fmt03d(n) ==
    LET d == Digits(n)
    IN  IF Len(d) >= 3 THEN d ELSE [i \in 1..(3 - Len(d)) |-> 0] \o d

FramePath(dir, digits) == <<dir, digits>>

FilterPaths == { FramePath("frames", Fmt03d(n)) : n \in 1..NumFiles }

(***************************************************************************)
(* frame_filter.py                                                         *)
(***************************************************************************)
BlurThreshold == 100

\* cv2.imread(path, IMREAD_GRAYSCALE): None for a missing or undecodable file.
imread(d, p) ==
    IF p \in DOMAIN d /\ d[p].kind = "image" THEN d[p] ELSE None

is_blurry(d, p) ==
    LET img == imread(d, p)
    IN  IF img = None THEN TRUE ELSE img.variance < BlurThreshold

\* hashlib.md5(bytes).hexdigest(): a digest stands for the bytes that produce
\* it, and the 128-bit digest is not injective: SharpA and SharpB collide.
md5(bytes) == IF bytes = SharpB THEN <<"md5", SharpA>> ELSE <<"md5", bytes>>

file_hash_of_path(d, p) == <<"md5", p>>

file_hash(d, p) == md5(d[p])

filter_loop(d, paths) ==
    LET F[i \in 0..Len(paths)] ==
            IF i = 0 THEN [hashes |-> {}, kept |-> <<>>]
            ELSE LET prev == F[i-1]
                     p == paths[i]
                 IN  IF is_blurry(d, p) THEN prev
                     ELSE IF file_hash(d, p) \in prev.hashes THEN prev
                     ELSE [hashes |-> prev.hashes \cup {file_hash(d, p)},
                           kept |-> Append(prev.kept, p)]
    IN  F[Len(paths)].kept

filter_frames_skip_first(d, paths) ==
    IF paths = <<>> THEN <<>> ELSE filter_loop(d, Tail(paths))

filter_frames(d, paths) == filter_loop(d, paths)

FilterInit ==
    /\ disk \in [FilterPaths -> FilterContents]
    /\ frame_paths \in SeqsUpTo(FilterPaths, MaxLen)
    /\ kept = <<>>
    /\ refiltered = <<>>
    /\ fpc = "init"

FilterIdle ==
    /\ frame_paths = <<>>
    /\ kept = <<>>
    /\ refiltered = <<>>
    /\ fpc = "off"

FilterFrames ==
    /\ fpc = "init"
    /\ kept' = filter_frames(disk, frame_paths)
    /\ fpc' = "once"
    /\ UNCHANGED <<disk, frame_paths, refiltered>>
    /\ UNCHANGED <<environ, tagVars, sliceVars, folderVars, daemonVars>>

FilterAgain ==
    /\ fpc = "once"
    /\ refiltered' = filter_frames(disk, kept)
    /\ fpc' = "twice"
    /\ UNCHANGED <<disk, frame_paths, kept>>
    /\ UNCHANGED <<environ, tagVars, sliceVars, folderVars, daemonVars>>

(***************************************************************************)
(* config.py: the module-level values, computed from the environment.      *)
(***************************************************************************)
Unset == "<unset>"       \* the variable is not in the environment
NoneValue == "<None>"    \* Python's None

\* str.lower() on the strings the model uses.
Lower(s) ==
    CASE s = "TRUE" -> "true"
      [] s = "True" -> "true"
      [] s = "FALSE" -> "false"
      [] OTHER -> s

get_env(env, name, default) ==
    IF env[name] = Unset THEN default ELSE env[name]

SIM_MODE(env) == Lower(get_env(env, "SIM_MODE", "true")) = "true"

DEV_PROFILE(env) == get_env(env, "DEV_PROFILE", "simulation-heavy")

DEP_POLICY(env) == get_env(env, "DEP_POLICY", "minimal")

OPENAI_API_KEY(env) == get_env(env, "OPENAI_API_KEY", NoneValue)

\* Python truthiness of a str-or-None.
Truthy(s) == s # NoneValue /\ s # ""

DefaultEnviron ==
    [SIM_MODE |-> Unset, DEV_PROFILE |-> Unset, DEP_POLICY |-> Unset,
     OPENAI_API_KEY |-> Unset]

(***************************************************************************)
(* mock_vision.py and modules/image_tagger.py                              *)
(***************************************************************************)
PathChars == {"a", "b", "/"}

\* os.path.basename(p): what follows the last "/".
basename(p) ==
    LET slashes == { i \in 1..Len(p) : p[i] = "/" }
        last == IF slashes = {} THEN 0
                ELSE CHOOSE i \in slashes : \A j \in slashes : j <= i
    IN  SubSeq(p, last + 1, Len(p))

EmptyDict == [empty |-> TRUE]

mock_vision_output(filename) ==
    [empty |-> FALSE, file |-> filename, trade |-> "mock-trade",
     completion |-> "0%", notes |-> "simulated"]

\* `d or {}`
OrEmpty(d) == IF d.empty THEN EmptyDict ELSE d

use_mock_and(env) == SIM_MODE(env) /\ DEV_PROFILE(env) = "simulation-heavy"

\* The condition of line 12.
use_mock(env) == SIM_MODE(env) \/ DEV_PROFILE(env) = "simulation-heavy"

tag_image(env, p) ==
    IF use_mock(env) THEN OrEmpty(mock_vision_output(basename(p)))
    ELSE IF ~Truthy(OPENAI_API_KEY(env))
         THEN OrEmpty(mock_vision_output(basename(p)))
         ELSE EmptyDict

TagEnvirons ==
    [SIM_MODE : {Unset, "true", "True", "false", "1"},
     DEV_PROFILE : {Unset, "simulation-heavy", "live"},
     DEP_POLICY : {Unset},
     OPENAI_API_KEY : {Unset, "", "sk-test"}]

TagInit ==
    /\ environ \in TagEnvirons
    /\ img_path \in SeqsUpTo(PathChars, MaxPathLen)
    /\ tags = EmptyDict
    /\ tpc = "init"

TagIdle ==
    /\ img_path = <<>>
    /\ tags = EmptyDict
    /\ tpc = "off"

TagImage ==
    /\ tpc = "init"
    /\ tags' = tag_image(environ, img_path)
    /\ tpc' = "done"
    /\ UNCHANGED <<environ, img_path>>
    /\ UNCHANGED <<disk, filterVars, sliceVars, folderVars, daemonVars>>

(***************************************************************************)
(* modules/video_frame_slicer.py                                           *)
(*                                                                         *)
(* A video is [openable, nframes, native_fps, variance]: whether           *)
(* cv2.VideoCapture opens it, the frames its container holds (indexes      *)
(* 0..nframes-1), its native frame rate, and the Laplacian variance of its *)
(* frames.  cap.set(CAP_PROP_POS_MSEC, t) places the decoder on the frame  *)
(* shown at time t, floor(t * native_fps / 1000); cap.read() returns that  *)
(* frame, or ok = False past the end.  cv2.imwrite either writes the file  *)
(* or raises.                                                              *)
(***************************************************************************)
SimCount == 3

\* f"frame_00{i}.jpg" (line 10) and f"frame_{frame_index:03d}.jpg" (line 53):
\* a frame file is named by its digits.
sim_name(k) == <<0, 0>> \o Digits(k)

out_name(n) == Fmt03d(n)

\* What line 14 writes.
sim_content(name) == TextBytes(name)

total_off_by_one(fps, max_seconds) == max_seconds * fps + 1

\* Line 42: total = int(max_seconds * fps).
total(fps, max_seconds) == max_seconds * fps

Max(a, b) == IF a >= b THEN a ELSE b

seek_frame_next(k, fps, native_fps) == ((k + 1) * native_fps) \div Max(fps, 1)

\* Lines 44 and 48: the frame at i * 1000 * sec_step ms, sec_step = 1.0 / max(fps, 1).
seek_frame(k, fps, native_fps) == (k * native_fps) \div Max(fps, 1)

\* Line 59: cap.release().
release(c) == "released"

sim_fallback_count_capped(t) == IF t < SimCount THEN t ELSE SimCount

\* Lines 26, 33, 39, 62: _sim_generate_frames(out_dir), count left at its
\* default whatever the budget t = total(fps, max_seconds) is.
sim_fallback_count(t) == SimCount

Video == videos[call.video]

SliceIdle ==
    /\ cv2_ok = TRUE
    /\ dir_ok = TRUE
    /\ videos = <<>>
    /\ call = None
    /\ spc = "off"
    /\ cap = "none"
    /\ loop_i = 0
    /\ frame = 0
    /\ frame_index = 0
    /\ sliced = <<>>
    /\ sim_paths = <<>>
    /\ route = "none"
    /\ result = <<>>
    /\ exc = "none"
    /\ kept_idx = <<>>

\* The locals of a call about to start.
FreshLocals ==
    /\ cap' = "none"
    /\ loop_i' = 0
    /\ frame' = 0
    /\ frame_index' = 0
    /\ sliced' = <<>>
    /\ sim_paths' = <<>>
    /\ route' = "none"
    /\ result' = <<>>
    /\ exc' = "none"
    /\ kept_idx' = <<>>

notSlice == <<environ, filterVars, tagVars, daemonVars>>

\* Enter _sim_generate_frames on the fallback named r.
EnterSim(r) ==
    /\ route' = r
    /\ spc' = "sim_mkdir"
    /\ sim_paths' = <<>>

\* A direct call slice_video(video, "frames", fps, max_seconds).
SliceCall ==
    /\ spc = "idle"
    /\ \E v \in DOMAIN videos, f \in 1..MaxFps, m \in 0..MaxSeconds :
          call' = [video |-> v, out_dir |-> "frames", fps |-> f, max_seconds |-> m]
    /\ spc' = "entry"
    /\ FreshLocals
    /\ UNCHANGED <<disk, sliceEnv, notSlice, folderVars>>

\* Line 25.
SliceEntry ==
    /\ spc = "entry"
    /\ IF SIM_MODE(environ) \/ DEP_POLICY(environ) = "minimal"
       THEN EnterSim("sim")
       ELSE spc' = "import" /\ UNCHANGED <<route, sim_paths>>
    /\ UNCHANGED <<disk, sliceEnv, call, notSlice, folderVars>>
    /\ UNCHANGED <<cap, loop_i, frame, frame_index, sliced, result, exc, kept_idx>>

\* Lines 29-33.
SliceImport ==
    /\ spc = "import"
    /\ IF cv2_ok
       THEN spc' = "mkdir" /\ UNCHANGED <<route, sim_paths>>
       ELSE EnterSim("import")
    /\ UNCHANGED <<disk, sliceEnv, call, notSlice, folderVars>>
    /\ UNCHANGED <<cap, loop_i, frame, frame_index, sliced, result, exc, kept_idx>>

\* Line 35: os.makedirs raises OSError when the directory cannot be made.
SliceMkdir ==
    /\ spc = "mkdir"
    /\ IF dir_ok
       THEN spc' = "open" /\ UNCHANGED exc
       ELSE spc' = "raised" /\ exc' = "OSError"
    /\ UNCHANGED <<disk, sliceEnv, call, notSlice, folderVars>>
    /\ UNCHANGED <<cap, loop_i, frame, frame_index, sliced, sim_paths, route, result, kept_idx>>

\* Lines 36-44.
SliceOpen ==
    /\ spc = "open"
    /\ IF Video.openable
       THEN /\ cap' = "open"
            /\ spc' = "loop"
            /\ sliced' = <<>>
            /\ frame_index' = 0
            /\ loop_i' = 0
            /\ UNCHANGED <<route, sim_paths>>
       ELSE /\ cap' = "unopened"
            /\ EnterSim("open")
            /\ UNCHANGED <<sliced, frame_index, loop_i>>
    /\ UNCHANGED <<disk, sliceEnv, call, notSlice, folderVars>>
    /\ UNCHANGED <<frame, result, exc, kept_idx>>

\* Lines 47-51: the loop test, the seek and the read.
SliceRead ==
    /\ spc = "loop"
    /\ IF loop_i < total(call.fps, call.max_seconds)
          /\ seek_frame(loop_i, call.fps, Video.native_fps) < Video.nframes
       THEN /\ frame' = seek_frame(loop_i, call.fps, Video.native_fps)
            /\ spc' = "write"
       ELSE /\ spc' = "release"
            /\ UNCHANGED frame
    /\ UNCHANGED <<disk, sliceEnv, call, notSlice, folderVars>>
    /\ UNCHANGED <<cap, loop_i, frame_index, sliced, sim_paths, route, result, exc, kept_idx>>

\* Lines 52-57, cv2.imwrite writing the file.
SliceWrite ==
    /\ spc = "write"
    /\ LET out_path == FramePath(call.out_dir, out_name(frame_index + 1))
       IN  /\ frame_index' = frame_index + 1
           /\ disk' = (out_path :> ImageBytes(<<call.video, frame>>, Video.variance)) @@ disk
           /\ sliced' = Append(sliced, out_path)
    /\ kept_idx' = Append(kept_idx, frame)
    /\ loop_i' = loop_i + 1
    /\ spc' = "loop"
    /\ UNCHANGED <<sliceEnv, call, notSlice, folderVars>>
    /\ UNCHANGED <<cap, frame, sim_paths, route, result, exc>>

\* Lines 52-55, cv2.imwrite raising: the exception leaves slice_video.
SliceWriteRaises ==
    /\ spc = "write"
    /\ frame_index' = frame_index + 1
    /\ spc' = "raised"
    /\ exc' = "cv2.error"
    /\ UNCHANGED <<disk, sliceEnv, call, notSlice, folderVars>>
    /\ UNCHANGED <<cap, loop_i, frame, sliced, sim_paths, route, result, kept_idx>>

\* Lines 59-63.
SliceRelease ==
    /\ spc = "release"
    /\ cap' = release(cap)
    /\ IF sliced = <<>>
       THEN EnterSim("zero") /\ UNCHANGED result
       ELSE /\ result' = sliced
            /\ route' = "live"
            /\ spc' = "returned"
            /\ UNCHANGED sim_paths
    /\ UNCHANGED <<disk, sliceEnv, call, notSlice, folderVars>>
    /\ UNCHANGED <<loop_i, frame, frame_index, sliced, exc, kept_idx>>

\* Line 7.
SimMkdir ==
    /\ spc = "sim_mkdir"
    /\ IF dir_ok
       THEN spc' = "sim_write" /\ UNCHANGED exc
       ELSE spc' = "raised" /\ exc' = "OSError"
    /\ UNCHANGED <<disk, sliceEnv, call, notSlice, folderVars>>
    /\ UNCHANGED <<cap, loop_i, frame, frame_index, sliced, sim_paths, route, result, kept_idx>>

\* Lines 9-16: one turn of the loop over range(1, count + 1).
SimWrite ==
    /\ spc = "sim_write"
    /\ Len(sim_paths) < sim_fallback_count(total(call.fps, call.max_seconds))
    /\ LET name == sim_name(Len(sim_paths) + 1)
           sim_path == FramePath(call.out_dir, name)
       IN  /\ disk' = (sim_path :> sim_content(name)) @@ disk
           /\ sim_paths' = Append(sim_paths, sim_path)
    /\ UNCHANGED <<sliceEnv, call, spc, notSlice, folderVars>>
    /\ UNCHANGED <<cap, loop_i, frame, frame_index, sliced, route, result, exc, kept_idx>>

\* Line 17.
SimReturn ==
    /\ spc = "sim_write"
    /\ Len(sim_paths) >= sim_fallback_count(total(call.fps, call.max_seconds))
    /\ result' = sim_paths
    /\ spc' = "returned"
    /\ UNCHANGED <<disk, sliceEnv, call, notSlice, folderVars>>
    /\ UNCHANGED <<cap, loop_i, frame, frame_index, sliced, sim_paths, route, exc, kept_idx>>

SliceSteps ==
    \/ SliceEntry
    \/ SliceImport
    \/ SliceMkdir
    \/ SliceOpen
    \/ SliceRead
    \/ SliceWrite
    \/ SliceWriteRaises
    \/ SliceRelease
    \/ SimMkdir
    \/ SimWrite
    \/ SimReturn

SliceEnvirons ==
    [SIM_MODE : {Unset, "false"},
     DEV_PROFILE : {Unset},
     DEP_POLICY : {Unset, "full"},
     OPENAI_API_KEY : {Unset}]

Videos ==
    [openable : BOOLEAN, nframes : 0..MaxVideoFrames,
     native_fps : 1..MaxNativeFps, variance : {250}]

SliceInit ==
    /\ disk = <<>>
    /\ environ \in SliceEnvirons
    /\ cv2_ok \in BOOLEAN
    /\ dir_ok \in BOOLEAN
    /\ videos \in [{1} -> Videos]
    /\ call = None
    /\ spc = "idle"
    /\ cap = "none"
    /\ loop_i = 0
    /\ frame = 0
    /\ frame_index = 0
    /\ sliced = <<>>
    /\ sim_paths = <<>>
    /\ route = "none"
    /\ result = <<>>
    /\ exc = "none"
    /\ kept_idx = <<>>

(***************************************************************************)
(* fieldvision_daemon.py: handle_folder                                    *)
(*                                                                         *)
(* The folder holds the videos 1..n (folder.glob('*.mp4'), in the order    *)
(* the glob yields them) and the stills folder.glob('*.jpg').  Every video *)
(* is sliced into the one directory folder/'frames' with slice_video's     *)
(* default fps and max_seconds.  Tagging, the report and the push read the *)
(* filtered frames and write none of the variables here: HandleFinish.     *)
(***************************************************************************)
DefaultFps == 1

DefaultMaxSeconds == 60

StillPath == FramePath("folder", <<9>>)

FolderIdle ==
    /\ hpc = "off"
    /\ vidx = 0
    /\ frames = <<>>
    /\ written = <<>>
    /\ stills = <<>>
    /\ filtered = <<>>

\* Line 48-49.
HandleStart ==
    /\ hpc = "start"
    /\ frames' = <<>>
    /\ written' = <<>>
    /\ vidx' = 1
    /\ hpc' = "videos"
    /\ UNCHANGED <<disk, environ, filterVars, tagVars, sliceVars, daemonVars>>
    /\ UNCHANGED <<stills, filtered>>

\* Lines 50-52: the call slice_video(video, frame_dir).
HandleSlice ==
    /\ hpc = "videos"
    /\ vidx <= Len(videos)
    /\ call' = [video |-> vidx, out_dir |-> "frames", fps |-> DefaultFps,
                max_seconds |-> DefaultMaxSeconds]
    /\ spc' = "entry"
    /\ FreshLocals
    /\ hpc' = "slicing"
    /\ UNCHANGED <<disk, sliceEnv, notSlice>>
    /\ UNCHANGED <<vidx, frames, written, stills, filtered>>

\* Line 52: frames.extend(<what slice_video returned>).
HandleExtend ==
    /\ hpc = "slicing"
    /\ spc = "returned"
    /\ frames' = frames \o result
    /\ written' = written \o [k \in 1..Len(result) |-> disk[result[k]]]
    /\ vidx' = vidx + 1
    /\ spc' = "idle"
    /\ hpc' = "videos"
    /\ UNCHANGED <<disk, sliceEnv, call, sliceLocals, notSlice>>
    /\ UNCHANGED <<stills, filtered>>

\* Line 52: slice_video raised; the exception leaves handle_folder.
HandleSliceRaised ==
    /\ hpc = "slicing"
    /\ spc = "raised"
    /\ hpc' = "raised"
    /\ UNCHANGED <<disk, sliceVars, notSlice>>
    /\ UNCHANGED <<vidx, frames, written, stills, filtered>>

\* Line 53, the loop of line 50 exhausted.
HandleStills ==
    /\ hpc = "videos"
    /\ vidx > Len(videos)
    /\ frames' = frames \o stills
    /\ written' = written \o [k \in 1..Len(stills) |-> disk[stills[k]]]
    /\ hpc' = "filter"
    /\ UNCHANGED <<disk, sliceVars, notSlice>>
    /\ UNCHANGED <<vidx, stills, filtered>>

\* Line 54.
HandleFilter ==
    /\ hpc = "filter"
    /\ filtered' = filter_frames(disk, frames)
    /\ hpc' = "filtered"
    /\ UNCHANGED <<disk, sliceVars, notSlice>>
    /\ UNCHANGED <<vidx, frames, written, stills>>

\* Lines 55-59.
HandleFinish ==
    /\ hpc = "filtered"
    /\ hpc' = "done"
    /\ UNCHANGED <<disk, sliceVars, notSlice>>
    /\ UNCHANGED <<vidx, frames, written, stills, filtered>>

FolderVideos ==
    [openable : BOOLEAN, nframes : 0..MaxFolderFrames,
     native_fps : {1}, variance : {250}]

FolderInit ==
    /\ environ \in SliceEnvirons
    /\ cv2_ok \in BOOLEAN
    /\ dir_ok \in BOOLEAN
    /\ videos \in SeqsUpTo(FolderVideos, MaxVideos)
    /\ stills \in {<<>>, <<StillPath>>}
    /\ disk = [p \in Range(stills) |-> SharpA]
    /\ call = None
    /\ spc = "idle"
    /\ cap = "none"
    /\ loop_i = 0
    /\ frame = 0
    /\ frame_index = 0
    /\ sliced = <<>>
    /\ sim_paths = <<>>
    /\ route = "none"
    /\ result = <<>>
    /\ exc = "none"
    /\ kept_idx = <<>>
    /\ hpc = "start"
    /\ vidx = 0
    /\ frames = <<>>
    /\ written = <<>>
    /\ filtered = <<>>

(***************************************************************************)
(* fieldvision_daemon.py: MediaHandler.on_created, on the observer's       *)
(* thread, and process_media, on the event loop's thread.                  *)
(*                                                                         *)
(* A path is the sequence of its components.  asyncio.Queue is not         *)
(* thread-safe: put_nowait on the observer's thread appends the item and   *)
(* completes the waiting getter's future, whose wake-up Future.set_result  *)
(* hands to loop.call_soon; call_soon appends it to the loop's ready list  *)
(* and does not interrupt a loop that blocks in select().  The two threads *)
(* interleave at every step below.                                         *)
(***************************************************************************)
EventPaths ==
    { <<"d1", "a.mp4">>, <<"d1", "b.jpg">>, <<"d2", "a.mp4">>,
      <<"d1", "frames", "f.jpg">> }

Events == [is_directory : BOOLEAN, src_path : EventPaths]

\* Path.parent
parent(p) == SubSeq(p, 1, Len(p) - 1)

mark_processed_never(dates, folder) == dates

\* Line 40: processed_dates.add(date_folder).
mark_processed(dates, folder) == dates \cup {folder}

\* Lines 43-44: the exception is caught and logged, the loop goes on.
after_exception == "get"

DaemonIdle ==
    /\ queue = <<>>
    /\ getter = "none"
    /\ ready = FALSE
    /\ cpc = "off"
    /\ ppc = "off"
    /\ path = <<>>
    /\ processed_dates = {}
    /\ nevents = 0
    /\ puts = <<>>
    /\ handled = <<>>
    /\ errors = <<>>

DaemonInit ==
    /\ queue = <<>>
    /\ getter = "none"
    /\ ready = FALSE
    /\ cpc = "get"
    /\ ppc = "idle"
    /\ path = <<>>
    /\ processed_dates = {}
    /\ nevents = 0
    /\ puts = <<>>
    /\ handled = <<>>
    /\ errors = <<>>

notDaemon == <<disk, environ, filterVars, tagVars, sliceVars, folderVars>>

\* Lines 27-30 and Queue.put_nowait's _put: the item joins the deque.
OnCreated ==
    /\ ppc = "idle"
    /\ nevents < MaxEvents
    /\ nevents' = nevents + 1
    /\ \E event \in Events :
          IF event.is_directory
          THEN UNCHANGED <<queue, puts, ppc>>
          ELSE /\ queue' = Append(queue, event.src_path)
               /\ puts' = Append(puts, event.src_path)
               /\ ppc' = "wakeup"
    /\ UNCHANGED <<getter, ready, cpc, path, processed_dates, handled, errors>>
    /\ UNCHANGED notDaemon

\* Queue.put_nowait's _wakeup_next(self._getters): the waiting getter's
\* future gets its result, and its callback goes to the loop's ready list.
PutWakeup ==
    /\ ppc = "wakeup"
    /\ IF getter = "waiting"
       THEN getter' = "done" /\ ready' = TRUE
       ELSE UNCHANGED <<getter, ready>>
    /\ ppc' = "idle"
    /\ UNCHANGED <<queue, cpc, path, processed_dates, nevents, puts, handled, errors>>
    /\ UNCHANGED notDaemon

\* Line 36, Queue.get: `while self.empty()` and, when it is not, get_nowait.
GetCheck ==
    /\ cpc = "get"
    /\ IF queue = <<>>
       THEN cpc' = "register" /\ UNCHANGED <<queue, path>>
       ELSE /\ path' = Head(queue)
            /\ queue' = Tail(queue)
            /\ cpc' = "seen"
    /\ UNCHANGED <<getter, ready, ppc, processed_dates, nevents, puts, handled, errors>>
    /\ UNCHANGED notDaemon

\* Queue.get: getter = create_future(); self._getters.append(getter).
GetRegister ==
    /\ cpc = "register"
    /\ getter' = "waiting"
    /\ cpc' = "await"
    /\ UNCHANGED <<queue, ready, ppc, path, processed_dates, nevents, puts, handled, errors>>
    /\ UNCHANGED notDaemon

\* Queue.get: `await getter`.  A future already done goes on at once;
\* otherwise the task is suspended and the loop, its ready list empty, blocks
\* in select() with no timeout.
GetAwait ==
    /\ cpc = "await"
    /\ IF getter = "done"
       THEN /\ cpc' = "get"
            /\ getter' = "none"
            /\ ready' = FALSE
       ELSE /\ cpc' = "blocked"
            /\ UNCHANGED <<getter, ready>>
    /\ UNCHANGED <<queue, ppc, path, processed_dates, nevents, puts, handled, errors>>
    /\ UNCHANGED notDaemon

\* Line 36, the task resuming: something unrelated to the queue (a signal, a
\* descriptor the loop watches) ends the select(), and the loop runs the
\* wake-up it finds in its ready list.  Nothing in the program causes this.
LoopWakes ==
    /\ cpc = "blocked"
    /\ ready
    /\ cpc' = "get"
    /\ getter' = "none"
    /\ ready' = FALSE
    /\ UNCHANGED <<queue, ppc, path, processed_dates, nevents, puts, handled, errors>>
    /\ UNCHANGED notDaemon

\* Lines 37-40.
SeenCheck ==
    /\ cpc = "seen"
    /\ IF parent(path) \in processed_dates
       THEN /\ cpc' = "get"
            /\ UNCHANGED <<processed_dates, handled>>
       ELSE /\ processed_dates' = mark_processed(processed_dates, parent(path))
            /\ handled' = Append(handled, parent(path))
            /\ cpc' = "handle"
    /\ UNCHANGED <<queue, getter, ready, ppc, path, nevents, puts, errors>>
    /\ UNCHANGED notDaemon

\* Lines 41-42, handle_folder returning.
HandleFolderReturns ==
    /\ cpc = "handle"
    /\ cpc' = "get"
    /\ UNCHANGED <<queue, getter, ready, ppc, path, processed_dates, nevents, puts, handled, errors>>
    /\ UNCHANGED notDaemon

\* Lines 41-44, handle_folder raising an Exception.
HandleFolderRaises ==
    /\ cpc = "handle"
    /\ errors' = Append(errors, parent(path))
    /\ cpc' = after_exception
    /\ UNCHANGED <<queue, getter, ready, ppc, path, processed_dates, nevents, puts, handled>>
    /\ UNCHANGED notDaemon

Observer == OnCreated \/ PutWakeup

Consumer ==
    \/ GetCheck
    \/ GetRegister
    \/ GetAwait
    \/ SeenCheck
    \/ HandleFolderReturns
    \/ HandleFolderRaises

(***************************************************************************)
(* Specifications.                                                         *)
(***************************************************************************)
FilterSpecInit ==
    /\ FilterInit
    /\ environ = DefaultEnviron
    /\ TagIdle
    /\ SliceIdle
    /\ FolderIdle
    /\ DaemonIdle

FilterNext == FilterFrames \/ FilterAgain

FilterSpec == FilterSpecInit /\ [][FilterNext]_vars

TagSpecInit ==
    /\ disk = <<>>
    /\ FilterIdle
    /\ TagInit
    /\ SliceIdle
    /\ FolderIdle
    /\ DaemonIdle

TagNext == TagImage

TagSpec == TagSpecInit /\ [][TagNext]_vars

SliceSpecInit ==
    /\ SliceInit
    /\ FilterIdle
    /\ TagIdle
    /\ FolderIdle
    /\ DaemonIdle

SliceNext == SliceCall \/ SliceSteps

SliceSpec == SliceSpecInit /\ [][SliceNext]_vars

FolderSpecInit ==
    /\ FolderInit
    /\ FilterIdle
    /\ TagIdle
    /\ DaemonIdle

FolderNext ==
    \/ HandleStart
    \/ HandleSlice
    \/ HandleExtend
    \/ HandleSliceRaised
    \/ HandleStills
    \/ HandleFilter
    \/ HandleFinish
    \/ SliceSteps

FolderSpec == FolderSpecInit /\ [][FolderNext]_vars

DaemonSpecInit ==
    /\ disk = <<>>
    /\ environ = DefaultEnviron
    /\ FilterIdle
    /\ TagIdle
    /\ SliceIdle
    /\ FolderIdle
    /\ DaemonInit

DaemonNext == Observer \/ Consumer \/ LoopWakes

DaemonSpec == DaemonSpecInit /\ [][DaemonNext]_vars

\* Each thread that can take a step eventually takes one: the observer's
\* thread ends the put_nowait it began, and the event loop runs
\* process_media while it is not blocked.  No fairness on OnCreated, the
\* file system may stop sending events, and none on LoopWakes, which the
\* program does nothing to bring about.
DaemonFairSpec ==
    /\ DaemonSpec
    /\ WF_vars(PutWakeup)
    /\ WF_vars(Consumer)

(***************************************************************************)
(* Claims about filter_frames.                                             *)
(***************************************************************************)
Blurry(i) == is_blurry(disk, frame_paths[i])

Bytes(i) == disk[frame_paths[i]]

\* The indexes the reference of C3 keeps: not blurry, and other bytes than
\* every earlier non-blurry frame.
KeptByBytes ==
    { i \in 1..Len(frame_paths) :
        /\ ~Blurry(i)
        /\ \A j \in 1..(i-1) : ~Blurry(j) => Bytes(j) # Bytes(i) }

\* The same with the MD5 digest in place of the bytes.
KeptByDigest ==
    { i \in 1..Len(frame_paths) :
        /\ ~Blurry(i)
        /\ \A j \in 1..(i-1) : ~Blurry(j) => md5(Bytes(j)) # md5(Bytes(i)) }

\* C3 as stated: filter_frames returns the subsequence of the input made of
\* every non-blurry frame whose file bytes differ from those of every earlier
\* non-blurry frame.
C3_KeepsEveryNewBytes ==
    fpc \in {"once", "twice"} => kept = AtIndexes(frame_paths, KeptByBytes)

\* C3 amended: filter_frames returns the subsequence of the input, in input
\* order, made of every non-blurry frame whose MD5 digest differs from that of
\* every earlier non-blurry frame; of byte-identical frames at most the first
\* occurrence is kept, and no two kept frames have the same bytes or digest.
C3_KeepsEveryNewDigest ==
    fpc \in {"once", "twice"} =>
        /\ kept = AtIndexes(frame_paths, KeptByDigest)
        /\ IsSubsequence(kept, frame_paths)
        /\ \A i \in 1..Len(frame_paths) :
               (~Blurry(i) /\ \E j \in 1..(i-1) : ~Blurry(j) /\ Bytes(j) = Bytes(i))
                   => i \notin KeptByDigest
        /\ \A a, b \in 1..Len(kept) :
               a # b => /\ disk[kept[a]] # disk[kept[b]]
                        /\ md5(disk[kept[a]]) # md5(disk[kept[b]])

\* Two byte-identical sharp frames at different paths, a blurry frame between
\* or around them, and the filter has run.
C3_Witness ==
    /\ fpc = "once"
    /\ \E i, j \in 1..Len(frame_paths) :
          /\ i < j
          /\ frame_paths[i] # frame_paths[j]
          /\ ~Blurry(i) /\ Bytes(i) = Bytes(j)
    /\ \E i \in 1..Len(frame_paths) : Blurry(i)
    /\ Len(kept) = 1

\* C4: filter_frames(filter_frames(frames)) = filter_frames(frames), the files
\* on disk unchanged between the two calls.
C4_Idempotent == fpc = "twice" => refiltered = kept

\* Both calls made on an input the first call shortened to two frames.
C4_Witness ==
    /\ fpc = "twice"
    /\ Len(kept) = 2
    /\ Len(frame_paths) = 3

(***************************************************************************)
(* Claims about tag_image.                                                 *)
(***************************************************************************)
\* b is the part of p after its last "/" (all of p when it has none).
IsBasenameOf(b, p) ==
    /\ Len(b) <= Len(p)
    /\ b = SubSeq(p, Len(p) - Len(b) + 1, Len(p))
    /\ \A i \in 1..Len(b) : b[i] # "/"
    /\ Len(b) < Len(p) => p[Len(p) - Len(b)] = "/"

IsMockLabel(t, p) ==
    /\ ~t.empty
    /\ DOMAIN t = {"empty", "file", "trade", "completion", "notes"}
    /\ t.trade = "mock-trade"
    /\ t.completion = "0%"
    /\ t.notes = "simulated"
    /\ IsBasenameOf(t.file, p)

LiveMode == ~SIM_MODE(environ) /\ DEV_PROFILE(environ) # "simulation-heavy"

HasApiKey == OPENAI_API_KEY(environ) \notin {NoneValue, ""}

\* C6: tag_image returns the mock label whenever SIM_MODE is true or
\* DEV_PROFILE is "simulation-heavy", and in live mode whenever no
\* OPENAI_API_KEY is configured; it returns the empty label only in live mode
\* with an API key present.
C6_MockUnlessLiveWithKey ==
    tpc = "done" =>
        /\ (SIM_MODE(environ) \/ DEV_PROFILE(environ) = "simulation-heavy")
               => IsMockLabel(tags, img_path)
        /\ (LiveMode /\ ~HasApiKey) => IsMockLabel(tags, img_path)
        /\ tags = EmptyDict => (LiveMode /\ HasApiKey)
        /\ (LiveMode /\ HasApiKey) => tags = EmptyDict

\* SIM_MODE false but the profile simulation-heavy, a key present, and a path
\* with a directory part: the mock label was returned.
C6_Witness ==
    /\ tpc = "done"
    /\ ~SIM_MODE(environ)
    /\ DEV_PROFILE(environ) = "simulation-heavy"
    /\ HasApiKey
    /\ \E i \in 1..Len(img_path) : img_path[i] = "/"
    /\ tags # EmptyDict
    /\ tags.file # img_path

(***************************************************************************)
(* Claims about slice_video.                                               *)
(***************************************************************************)
Finished == spc \in {"returned", "raised"}

Budget == call.fps * call.max_seconds

\* C1 as stated: in every mode the returned list has at most
\* fps * max_seconds elements.
C1_AtMostBudget == spc = "returned" => Len(result) <= Budget

\* C1 amended: a live capture that decoded a frame returns at most
\* fps * max_seconds frames; every placeholder return (simulation, minimal
\* policy, import failure, open failure, no frame decoded) has exactly 3
\* frames whatever fps and max_seconds are.
C1_AtMostBudgetWhenLive ==
    spc = "returned" =>
        /\ route = "live" => (1 <= Len(result) /\ Len(result) <= Budget)
        /\ route # "live" => Len(result) = 3
        /\ Len(result) <= Max(3, Budget)

\* A live capture that stopped at the budget with frames left in the container.
C1_Witness ==
    /\ spc = "returned"
    /\ route = "live"
    /\ Len(result) = Budget
    /\ Budget >= 2
    /\ seek_frame(Budget, call.fps, Video.native_fps) < Video.nframes

\* The conditions under which C2 says real capture is not possible.
NoRealCapture ==
    \/ SIM_MODE(environ)
    \/ DEP_POLICY(environ) = "minimal"
    \/ ~cv2_ok
    \/ ~Video.openable
    \/ (cap = "released" /\ kept_idx = <<>>)

\* The placeholder sequence: frame_001..frame_003 in order, each on disk and
\* holding the sentinel marker.
IsPlaceholderResult ==
    /\ result = <<FramePath(call.out_dir, <<0, 0, 1>>),
                  FramePath(call.out_dir, <<0, 0, 2>>),
                  FramePath(call.out_dir, <<0, 0, 3>>)>>
    /\ \A k \in 1..Len(result) :
          /\ result[k] \in DOMAIN disk
          /\ disk[result[k]].marker

\* C2 as stated: whenever real capture is not possible slice_video does not
\* raise and returns exactly the placeholder sequence.
C2_FallbackNeverRaises ==
    (Finished /\ NoRealCapture) => (spc = "returned" /\ IsPlaceholderResult)

\* C2 amended: whenever real capture is not possible and the output directory
\* can be created, slice_video does not raise and returns exactly the
\* placeholder sequence; when the directory cannot be created, os.makedirs's
\* OSError leaves slice_video and nothing is returned.
C2_FallbackUnlessNoDirectory ==
    (Finished /\ NoRealCapture) =>
        IF dir_ok
        THEN spc = "returned" /\ IsPlaceholderResult /\ exc = "none"
        ELSE spc = "raised" /\ exc = "OSError" /\ result = <<>>

\* Live mode, the video opened, no frame decoded: the placeholders came back.
C2_Witness ==
    /\ spc = "returned"
    /\ route = "zero"
    /\ cap = "released"
    /\ IsPlaceholderResult

\* round(a / b), halves up.
Round(a, b) == (2 * a + b) \div (2 * b)

Interval == Max(1, Round(Video.native_fps, call.fps))

\* The frame indexes C7 says are kept: the multiples of interval, in order,
\* until the container or the budget is exhausted.
MultiplesKept ==
    LET all == { k \in 0..(Video.nframes - 1) : k % Interval = 0 }
        n == IF Cardinality(all) < Budget THEN Cardinality(all) ELSE Budget
    IN  [k \in 1..n |-> (k - 1) * Interval]

\* C7 as stated: live capture keeps exactly the decoded frames whose index is
\* a multiple of interval = max(1, round(nativeFps / fps)).
C7_KeepsMultiplesOfInterval ==
    (cap = "released" /\ Finished) => kept_idx = MultiplesKept

\* C7 amended: live capture computes no interval; for i = 0, 1, ... it seeks
\* to i / fps seconds and keeps the frame read there, index
\* floor(i * nativeFps / fps), stopping at the first seek past the end of the
\* container or once fps * max_seconds frames are kept.
C7_KeepsFrameAtEachStep ==
    (cap = "released" /\ Finished) =>
        LET n == Len(kept_idx)
        IN  /\ n <= Budget
            /\ \A k \in 1..n :
                  /\ kept_idx[k] = ((k - 1) * Video.native_fps) \div call.fps
                  /\ kept_idx[k] < Video.nframes
            /\ n < Budget => (n * Video.native_fps) \div call.fps >= Video.nframes
            /\ route = "live" =>
                  /\ Len(result) = n
                  /\ \A k \in 1..n :
                        disk[result[k]].id = <<call.video, kept_idx[k]>>

\* fps does not divide the native rate: frames 0, 1 and 3 were kept.
C7_Witness ==
    /\ spc = "returned"
    /\ route = "live"
    /\ call.fps = 2
    /\ Video.native_fps = 3
    /\ kept_idx = <<0, 1, 3>>

\* C8: every decoder handle slice_video opened is released before it returns
\* or raises.
C8_HandleReleased == Finished => cap # "open"

(***************************************************************************)
(* Claims about handle_folder.                                             *)
(***************************************************************************)
\* C5: no slice_video invocation of a folder overwrites a frame file an
\* earlier one returned: when the filter runs, the collected paths are
\* pairwise distinct and each holds the content written for it.
C5_FramesNeverOverwritten ==
    hpc = "filter" =>
        /\ NoDuplicates(frames)
        /\ \A k \in 1..Len(frames) :
              frames[k] \in DOMAIN disk /\ disk[frames[k]] = written[k]

(***************************************************************************)
(* Claims about the daemon.                                                *)
(***************************************************************************)
Parents(s) == [k \in 1..Len(s) |-> parent(s[k])]

FirstOccurrences(s) ==
    AtIndexes(s, { k \in 1..Len(s) : \A j \in 1..(k-1) : s[j] # s[k] })

\* The paths queue.get() has returned, in order.
Taken == SubSeq(puts, 1, Len(puts) - Len(queue))

\* Those of them lines 37-40 have been run for.
Decided == IF cpc = "seen" THEN SubSeq(Taken, 1, Len(Taken) - 1) ELSE Taken

\* C9: handle_folder is invoked at most once per distinct parent folder, one
\* folder at a time, in the order of each folder's first queued event; a
\* folder whose handle_folder raised is logged, not retried, and does not
\* stop the loop; later events of a folder already seen are dropped.
C9_OncePerFolderInOrder ==
    /\ handled = FirstOccurrences(Parents(Decided))
    /\ NoDuplicates(handled)
    /\ processed_dates = Range(handled)
    /\ IsSubsequence(errors, handled)
    /\ cpc = "handle" => parent(path) = handled[Len(handled)]
    /\ cpc \in {"get", "register", "await", "blocked", "seen", "handle"}

\* The first folder failed, a second event of it was dropped, and the folder
\* queued after it is being handled.
C9_Witness ==
    /\ puts = << <<"d1", "a.mp4">>, <<"d1", "b.jpg">>, <<"d2", "a.mp4">> >>
    /\ errors = << <<"d1">> >>
    /\ handled = << <<"d1">>, <<"d2">> >>
    /\ cpc = "handle"

\* C10: every path on_created put on the queue is eventually taken off it by
\* process_media, each handle_folder call terminating.
C10_EveryPutIsTaken ==
    \A n \in 1..MaxEvents : (Len(puts) >= n) ~> (Len(Taken) >= n)

====
